---- MODULE Spec2Model ----
(***************************************************************************)
(* A model of the factor-model estimation and rolling backtest code of     *)
(* pyfactor_model: FactorModel (src/src/models/factor_model.py),           *)
(* prepare_returns_data (src/src/utils/data_preparation.py),               *)
(* backtest_strategy (src/src/utils/backtesting.py) and                    *)
(* PortfolioPerformance (src/src/utils/performance_evaluation.py).         *)
(*                                                                         *)
(* Floating point numbers are modelled as exact rationals <<n, d>> in      *)
(* lowest terms with d > 0, extended with the IEEE special values          *)
(* NaN = <<0,0>>, +inf = <<1,0>> and -inf = <<-1,0>>.  Rounding is not     *)
(* modelled.                                                               *)
(***************************************************************************)
EXTENDS Integers, Sequences, FiniteSets, TLC

(***************************************************************************)
(* Extended rational arithmetic (numpy / pandas float64 semantics).        *)
(***************************************************************************)
NaN == <<0, 0>>
PInf == <<1, 0>>
NInf == <<-1, 0>>
Zero == <<0, 1>>
One == <<1, 1>>

IAbs(i) == IF i < 0 THEN -i ELSE i
ISign(i) == IF i > 0 THEN 1 ELSE IF i < 0 THEN -1 ELSE 0

RECURSIVE GCD(_, _)
GCD(a, b) == IF b = 0 THEN a ELSE GCD(b, a % b)

\* The rational n/d (d > 0) in lowest terms.
Rat(n, d) ==
    LET g == GCD(IAbs(n), d) IN <<n \div g, d \div g>>

IsNaN(x) == x[1] = 0 /\ x[2] = 0
IsInf(x) == x[1] # 0 /\ x[2] = 0
IsFinite(x) == x[2] > 0
Sign(x) == ISign(x[1])

Neg(x) == <<-x[1], x[2]>>
Abs(x) == <<IAbs(x[1]), x[2]>>

Add(a, b) ==
    IF IsNaN(a) \/ IsNaN(b) THEN NaN
    ELSE IF IsInf(a) /\ IsInf(b) THEN (IF a = b THEN a ELSE NaN)
    ELSE IF IsInf(a) THEN a
    ELSE IF IsInf(b) THEN b
    ELSE Rat(a[1] * (b[2] \div GCD(a[2], b[2])) + b[1] * (a[2] \div GCD(a[2], b[2])),
             (a[2] \div GCD(a[2], b[2])) * b[2])

Sub(a, b) == Add(a, Neg(b))

\* The product of two finite rationals, cancelling before multiplying.
MulFinite(a, b) ==
    Rat((a[1] \div GCD(IAbs(a[1]), b[2])) * (b[1] \div GCD(IAbs(b[1]), a[2])),
        (a[2] \div GCD(IAbs(b[1]), a[2])) * (b[2] \div GCD(IAbs(a[1]), b[2])))

Mul(a, b) ==
    IF IsNaN(a) \/ IsNaN(b) THEN NaN
    ELSE IF IsInf(a) \/ IsInf(b)
         THEN (IF Sign(a) * Sign(b) = 0 THEN NaN ELSE <<Sign(a) * Sign(b), 0>>)
    ELSE MulFinite(a, b)

\* a / b as numpy divides floats: x/0 is +-inf, 0/0 and inf/inf are NaN.
Div(a, b) ==
    IF IsNaN(a) \/ IsNaN(b) THEN NaN
    ELSE IF IsInf(b) THEN (IF IsInf(a) THEN NaN ELSE Zero)
    ELSE IF b[1] = 0 THEN (IF Sign(a) = 0 THEN NaN ELSE <<Sign(a), 0>>)
    ELSE IF IsInf(a) THEN <<Sign(a) * Sign(b), 0>>
    ELSE MulFinite(a, <<Sign(b) * b[2], IAbs(b[1])>>)

\* x > 0 (False for NaN).
Gt0(x) == x[1] > 0

\* a < b (False when either is NaN).
Lt(a, b) ==
    /\ ~IsNaN(a) /\ ~IsNaN(b)
    /\ a # b
    /\ Gt0(Sub(b, a))

\* Python's min(a, b): b when b < a, else a.
PyMin(a, b) == IF Lt(b, a) THEN b ELSE a

IntVal(i) == <<i, 1>>

(***************************************************************************)
(* Sets, sequences and reductions.                                         *)
(***************************************************************************)
SetMin(S) == CHOOSE x \in S : \A y \in S : x <= y

RECURSIVE SortedSeq(_)
SortedSeq(S) ==
    IF S = {} THEN <<>>
    ELSE <<SetMin(S)>> \o SortedSeq(S \ {SetMin(S)})

\* Sum of f over S, adding with IEEE propagation (numpy, skipna = False).
RECURSIVE SumOver(_, _)
SumOver(f, S) ==
    IF S = {} THEN Zero
    ELSE LET x == CHOOSE y \in S : TRUE
         IN Add(f[x], SumOver(f, S \ {x}))

\* pandas Series.sum() (skipna = True): NaN entries are left out.
NanSum(f, S) == SumOver(f, {x \in S : ~IsNaN(f[x])})

\* pandas mean(skipna = True); the mean of nothing is NaN.
NanMean(f, S) ==
    LET K == {x \in S : ~IsNaN(f[x])}
    IN Div(SumOver(f, K), IntVal(Cardinality(K)))

(***************************************************************************)
(* Price data and data frames.                                             *)
(*                                                                         *)
(* A price table (historical_data, a window) is a function from tickers to *)
(* close-price series; a series is a function from the dates of its rows   *)
(* (integers, day numbers) to prices.  A frame is a pandas DataFrame:      *)
(* [index, cols, v] with v[column][date].                                  *)
(***************************************************************************)
Factors == {"Market", "Size", "Value", "Momentum"}
FactorSeq == <<"Market", "Size", "Value", "Momentum">>

NoTable == [t \in {} |-> NaN]

SetMax(S) == CHOOSE x \in S : \A y \in S : x >= y

\* pd.DataFrame({ticker: data[ticker]['close'] ...}): the index is the sorted
\* union of the series' dates, a ticker without a row on a date holds NaN.
DfClose(data) ==
    LET idx == UNION {DOMAIN data[t] : t \in DOMAIN data}
    IN [index |-> idx,
        cols |-> DOMAIN data,
        v |-> [t \in DOMAIN data |->
                 [d \in idx |-> IF d \in DOMAIN data[t] THEN data[t][d] ELSE NaN]]]

\* DataFrame.pct_change(fill_method=None): row / previous row - 1, the first
\* row is NaN.
PctChange(F) ==
    [index |-> F.index,
     cols |-> F.cols,
     v |-> [t \in F.cols |->
              [d \in F.index |->
                 IF d = SetMin(F.index) THEN NaN
                 ELSE LET prev == SetMax({e \in F.index : e < d})
                      IN Sub(Div(F.v[t][d], F.v[t][prev]), One)]]]

\* DataFrame.dropna(): rows holding any NaN are removed.
DropNaRows(F) ==
    LET keep == {d \in F.index : \A t \in F.cols : ~IsNaN(F.v[t][d])}
    IN [index |-> keep,
        cols |-> F.cols,
        v |-> [t \in F.cols |-> [d \in keep |-> F.v[t][d]]]]

\* prepare_returns_data: the percentage changes of the close prices.
PrepareReturnsData(historical_data) == PctChange(DfClose(historical_data))

(***************************************************************************)
(* numpy statistics.                                                       *)
(***************************************************************************)
\* np.log on the prices of the model, to one decimal.
Ln(x) ==
    IF IsNaN(x) THEN NaN
    ELSE IF x = PInf THEN PInf
    ELSE IF x[1] < 0 THEN NaN
    ELSE IF x[1] = 0 THEN NInf
    ELSE CASE x = <<1, 1>> -> Zero
           [] x = <<2, 1>> -> <<7, 10>>
           [] x = <<3, 1>> -> <<11, 10>>
           [] x = <<4, 1>> -> <<7, 5>>
           [] x = <<5, 1>> -> <<8, 5>>
           [] x = <<6, 1>> -> <<9, 5>>

\* np.cov(x, m)[0, 1] over the rows S: sum of products of deviations times
\* 1 / (N - 1), the factor being 1 / 0.0 when N <= 1.
Cov(x, m, S) ==
    LET N == Cardinality(S)
        xbar == Div(SumOver(x, S), IntVal(N))
        mbar == Div(SumOver(m, S), IntVal(N))
        prod == [d \in S |-> Mul(Sub(x[d], xbar), Sub(m[d], mbar))]
        fact == IF N - 1 > 0 THEN N - 1 ELSE 0
    IN Mul(SumOver(prod, S), Div(One, IntVal(fact)))

\* np.var(series) = Series.var(ddof=0), skipping NaN; NaN when no value is left.
Var(m, S) ==
    LET K == {d \in S : ~IsNaN(m[d])}
        N == Cardinality(K)
        avg == Div(SumOver(m, K), IntVal(N))
        sqr == [d \in K |-> Mul(Sub(avg, m[d]), Sub(avg, m[d]))]
    IN IF N = 0 THEN NaN ELSE Div(SumOver(sqr, K), IntVal(N))

\* The exposure row with the momentum as the plain price ratio.
ExposureRow_PriceRatio(close, returns_data, market_returns, t) ==
    [f \in Factors |->
       CASE f = "Market" ->
              Div(Cov(returns_data.v[t], market_returns, returns_data.index),
                  Var(market_returns, returns_data.index))
         [] f = "Size" -> Ln(close.v[t][SetMax(close.index)])
         [] f = "Value" -> Div(One, close.v[t][SetMax(close.index)])
         [] f = "Momentum" ->
              IF Cardinality(close.index) > 1
              THEN Div(close.v[t][SetMax(close.index)], close.v[t][SetMin(close.index)])
              ELSE NaN]

(***************************************************************************)
(* FactorModel.                                                            *)
(***************************************************************************)
\* The exposure row of one ticker (factor_model.py lines 32-51).
ExposureRow(close, returns_data, market_returns, t) ==
    LET last == close.v[t][SetMax(close.index)]
        first == close.v[t][SetMin(close.index)]
    IN [f \in Factors |->
          CASE f = "Market" ->
                 Div(Cov(returns_data.v[t], market_returns, returns_data.index),
                     Var(market_returns, returns_data.index))
            [] f = "Size" -> Ln(last)
            [] f = "Value" -> Div(One, last)
            [] f = "Momentum" ->
                 IF Cardinality(close.index) > 1
                 THEN Sub(Div(last, first), One)
                 ELSE NaN]

\* calculate_factor_exposures: one row per column of the close-price frame.
\* .iloc[-1] raises IndexError when the frame has columns and no row.
CalculateFactorExposures(input_data) ==
    LET close == DfClose(input_data)
        returns_data == DropNaRows(PctChange(close))
        market_returns ==
            [d \in returns_data.index |->
               NanMean([t \in close.cols |-> returns_data.v[t][d]], close.cols)]
    IN IF close.cols # {} /\ close.index = {}
       THEN [raised |-> "IndexError", tab |-> NoTable]
       ELSE [raised |-> "none",
             tab |-> [t \in close.cols |->
                        ExposureRow(close, returns_data, market_returns, t)]]

\* self.factor_exposures / self.factor_returns: None, or a table.
None == [some |-> FALSE, tab |-> NoTable]
Some(tab) == [some |-> TRUE, tab |-> tab]

\* DataFrame.dropna() on the exposure table: the tickers whose row holds no NaN
\* (an infinite entry is not NaN).
CompleteRows(exposures) ==
    {t \in DOMAIN exposures : \A f \in Factors : ~IsNaN(exposures[t][f])}

\* LinearRegression().fit(x, y).coef_: the coefficients are a function of the
\* design matrix and the target alone; they are represented by that pair.
LinearRegressionCoef(x, y) == [x |-> x, y |-> y]

\* What LinearRegression().fit(x_data, y_data[x_data.index]) raises on the
\* return row of date d: KeyError for a ticker of x_data that is no column of
\* the returns, ValueError (sklearn's finiteness check) for an infinite input.
FitRaises(exposures, returns_data, d) ==
    LET X == CompleteRows(exposures)
    IN IF ~(X \subseteq returns_data.cols) THEN "KeyError"
       ELSE IF \/ \E t \in X : \E f \in Factors : IsInf(exposures[t][f])
               \/ \E t \in X : ~IsFinite(returns_data.v[t][d])
            THEN "ValueError"
       ELSE "none"

\* The loop of estimate_factor_returns over the dates of the returns, and the
\* final dropna(how='all'): the dates that were fitted, with their coefficients.
FitAllDates(exposures, returns_data) ==
    LET X == CompleteRows(exposures)
        fitted == {d \in returns_data.index :
                     /\ Cardinality(X) > 0
                     /\ ~(\A t \in returns_data.cols : IsNaN(returns_data.v[t][d]))}
        bad == {d \in fitted : FitRaises(exposures, returns_data, d) # "none"}
    IN IF bad # {}
       THEN [raised |-> FitRaises(exposures, returns_data, SetMin(bad)),
             tab |-> NoTable]
       ELSE [raised |-> "none",
             tab |-> [d \in fitted |->
                        LinearRegressionCoef(
                            [t \in X |-> exposures[t]],
                            [t \in X |-> returns_data.v[t][d]])]]

\* "if self.factor_exposures is None: self.calculate_factor_exposures(...)":
\* what is raised and the exposures cached afterwards.
CachedOrCalculated(fe, calc) ==
    IF fe.some THEN [raised |-> "none", fe |-> fe]
    ELSE IF calc.raised = "none" THEN [raised |-> "none", fe |-> Some(calc.tab)]
    ELSE [raised |-> calc.raised, fe |-> fe]

EnsureExposures(fe, input_data) ==
    IF fe.some THEN [raised |-> "none", fe |-> fe]
    ELSE CachedOrCalculated(fe, CalculateFactorExposures(input_data))

\* The end of estimate_factor_returns, given the fit over the dates.
EstimateResult(fe1, fr, fit) ==
    IF fit.raised # "none"
    THEN [raised |-> fit.raised, fe |-> fe1, fr |-> fr, tab |-> NoTable]
    ELSE [raised |-> "none", fe |-> fe1, fr |-> Some(fit.tab), tab |-> fit.tab]

EstimateGiven(ens, fr, returns_data) ==
    IF ens.raised # "none"
    THEN [raised |-> ens.raised, fe |-> ens.fe, fr |-> fr, tab |-> NoTable]
    ELSE EstimateResult(ens.fe, fr, FitAllDates(ens.fe.tab, returns_data))

\* estimate_factor_returns on a model whose cached exposures are fe: the
\* exposures are computed only when none are cached.  Returns what is raised,
\* the new self.factor_exposures, the new self.factor_returns and the result.
EstimateFactorReturns(fe, fr, input_data) ==
    EstimateGiven(EnsureExposures(fe, input_data), fr,
                  DropNaRows(PctChange(DfClose(input_data))))

\* Line 103: the exposures to the factor times its target.
FactorPortfolio(exposures, target, factor) ==
    [t \in DOMAIN exposures |-> Mul(exposures[t][factor], target[factor])]

\* Line 104: factor_portfolio.abs().sum().
FactorSum(factor_portfolio) ==
    NanSum([t \in DOMAIN factor_portfolio |-> Abs(factor_portfolio[t])],
           DOMAIN factor_portfolio)

\* Lines 107-109: what the factor adds to the weight of each asset.
FactorIncrement(factor_portfolio, factor_sum, allocation) ==
    [t \in DOMAIN factor_portfolio |->
       Mul(Div(factor_portfolio[t], factor_sum), allocation)]

\* The factor step with a skipped factor still consuming its allocation.
AllocateGiven_SkipConsumes(st, factor_portfolio, factor_sum, allocation) ==
    [portfolio |->
        IF Gt0(factor_sum)
        THEN [t \in DOMAIN st.portfolio |->
                Add(st.portfolio[t],
                    FactorIncrement(factor_portfolio, factor_sum, allocation)[t])]
        ELSE st.portfolio,
     remaining_budget |-> Sub(st.remaining_budget, allocation)]

\* Lines 106-112 for one factor, given its factor_portfolio, factor_sum and
\* allocation, on the running state st = [portfolio, remaining_budget].
AllocateGiven(st, factor_portfolio, factor_sum, allocation) ==
    IF Gt0(factor_sum)
    THEN [portfolio |->
             [t \in DOMAIN st.portfolio |->
                Add(st.portfolio[t],
                    FactorIncrement(factor_portfolio, factor_sum, allocation)[t])],
          remaining_budget |-> Sub(st.remaining_budget, allocation)]
    ELSE st

\* One pass of the factor loop of construct_portfolio (lines 103-112).
AllocateFactor(exposures, target, st, factor) ==
    AllocateGiven(st,
                  FactorPortfolio(exposures, target, factor),
                  FactorSum(FactorPortfolio(exposures, target, factor)),
                  PyMin(st.remaining_budget, Abs(target[factor])))

\* The factor loop: self.factors in order, from zero weights and a budget of 1.
RECURSIVE AllocateFactors(_, _, _)
AllocateFactors(exposures, target, n) ==
    IF n = 0
    THEN [portfolio |-> [t \in DOMAIN exposures |-> Zero], remaining_budget |-> One]
    ELSE AllocateFactor(exposures, target,
                        AllocateFactors(exposures, target, n - 1), FactorSeq[n])

\* The factor loop over any list of factors (self.factors is whatever list the
\* model was created with).
RECURSIVE AllocateList(_, _, _)
AllocateList(exposures, target, factors) ==
    IF factors = <<>>
    THEN [portfolio |-> [t \in DOMAIN exposures |-> Zero], remaining_budget |-> One]
    ELSE AllocateFactor(exposures, target,
                        AllocateList(exposures, target,
                                     SubSeq(factors, 1, Len(factors) - 1)),
                        factors[Len(factors)])

\* portfolio.fillna(0)
FillNa(portfolio) ==
    [t \in DOMAIN portfolio |-> IF IsNaN(portfolio[t]) THEN Zero ELSE portfolio[t]]

\* Sum of the absolute values of a vector (Series.abs().sum()).
AbsSum(w) == NanSum([t \in DOMAIN w |-> Abs(w[t])], DOMAIN w)

NormalizeFilled(filled, portfolio_sum) ==
    IF Gt0(portfolio_sum)
    THEN [t \in DOMAIN filled |-> Div(filled[t], portfolio_sum)]
    ELSE [t \in DOMAIN filled |-> Zero]

\* The normalisation with the division by the sum left out.
NormalizeWeights_NoDivide(portfolio) == FillNa(portfolio)

\* Lines 115-122: fillna(0), then divide by the sum of absolute weights, or
\* return zeros when that sum is not positive.
NormalizeWeights(portfolio) ==
    NormalizeFilled(FillNa(portfolio), AbsSum(FillNa(portfolio)))

\* The weights construct_portfolio computes from the cached exposure table.
WeightsFrom(exposures, target) ==
    NormalizeWeights(AllocateFactors(exposures, target, Len(FactorSeq)).portfolio)

\* "if self.factor_returns is None: self.estimate_factor_returns(...)".
EnsureReturns(fe1, fr, input_data) ==
    IF fr.some THEN [raised |-> "none", fe |-> fe1, fr |-> fr, tab |-> NoTable]
    ELSE EstimateFactorReturns(fe1, fr, input_data)

ConstructResult(est, target) ==
    IF est.raised # "none"
    THEN [raised |-> est.raised, fe |-> est.fe, fr |-> est.fr, weights |-> NoTable]
    ELSE [raised |-> "none", fe |-> est.fe, fr |-> est.fr,
          weights |-> WeightsFrom(est.fe.tab, target)]

ConstructGiven(ens, fr, input_data, target) ==
    IF ens.raised # "none"
    THEN [raised |-> ens.raised, fe |-> ens.fe, fr |-> fr, weights |-> NoTable]
    ELSE ConstructResult(EnsureReturns(ens.fe, fr, input_data), target)

\* construct_portfolio on a model with cached fe, fr: exposures and factor
\* returns are computed from input_data only when none are cached.
ConstructPortfolio(fe, fr, input_data, target) ==
    ConstructGiven(EnsureExposures(fe, input_data), fr, input_data, target)

(***************************************************************************)
(* backtest_strategy.                                                      *)
(***************************************************************************)
\* future_returns = stock_returns.loc[end_date:].iloc[:20]
ForwardBlock == 20

\* The period (of period_len days) a day falls in; a period is labelled by its
\* last day, as resample(rebalance_frequency) labels a month by its end.
PeriodOf(d, period_len) == (d + period_len - 1) \div period_len

\* stock_returns.resample(rebalance_frequency).last().index: the label of
\* every period from the first to the last date of the index.
RebalanceDates(index, period_len) ==
    IF index = {} THEN <<>>
    ELSE SortedSeq({k * period_len :
                      k \in PeriodOf(SetMin(index), period_len)
                            .. PeriodOf(SetMax(index), period_len)})

\* historical_data[ticker].loc[start_date:end_date]
SliceRows(series, start_date, end_date) ==
    [d \in {e \in DOMAIN series : start_date <= e /\ e <= end_date} |-> series[d]]

\* The window of a rebalance date: every ticker but the benchmark, sliced to
\* [end_date - window_size, end_date].
WindowData(historical_data, benchmark, end_date, window_size) ==
    [t \in DOMAIN historical_data \ {benchmark} |->
       SliceRows(historical_data[t], end_date - window_size, end_date)]

\* The dates of stock_returns.loc[end_date:].iloc[:20].
FutureDates(index, end_date) ==
    {d \in index :
       /\ d >= end_date
       /\ Cardinality({e \in index : e >= end_date /\ e < d}) < ForwardBlock}

\* (future_returns * weights).sum(axis=1) on date d.
WeightedReturn(stock_returns, weights, d) ==
    NanSum([t \in stock_returns.cols |->
              IF t \in DOMAIN weights
              THEN Mul(stock_returns.v[t][d], weights[t]) ELSE NaN],
           stock_returns.cols)

\* returns_data.drop(columns=[benchmark])
DropColumn(F, c) ==
    [index |-> F.index,
     cols |-> F.cols \ {c},
     v |-> [t \in F.cols \ {c} |-> F.v[t]]]

\* The assignment that leaves a return already recorded as it is.
AssignReturns_KeepFirst(portfolio_returns, stock_returns, weights, end_date) ==
    [d \in DOMAIN portfolio_returns |->
       IF d < end_date \/ ~IsNaN(portfolio_returns[d]) THEN portfolio_returns[d]
       ELSE IF d \in FutureDates(stock_returns.index, end_date)
            THEN WeightedReturn(stock_returns, weights, d)
       ELSE NaN]

\* portfolio_returns.loc[end_date:] = (future_returns * weights).sum(axis=1):
\* every date from end_date on is assigned; the dates after the block get NaN.
AssignReturns(portfolio_returns, stock_returns, weights, end_date) ==
    [d \in DOMAIN portfolio_returns |->
       IF d < end_date THEN portfolio_returns[d]
       ELSE IF d \in FutureDates(stock_returns.index, end_date)
            THEN WeightedReturn(stock_returns, weights, d)
       ELSE NaN]

\* portfolio_weights.loc[end_date, weights.index] = weights: the row of
\* end_date is created when the index does not hold it.
AssignWeights(portfolio_weights, weights, end_date) ==
    [index |-> portfolio_weights.index \cup {end_date},
     cols |-> portfolio_weights.cols,
     v |-> [t \in portfolio_weights.cols |->
              [d \in portfolio_weights.index \cup {end_date} |->
                 IF d = end_date /\ t \in DOMAIN weights THEN weights[t]
                 ELSE IF d \in portfolio_weights.index THEN portfolio_weights.v[t][d]
                 ELSE NaN]]]

\* Series.dropna()
DropNaSeries(ser) == [d \in {e \in DOMAIN ser : ~IsNaN(ser[e])} |-> ser[d]]

\* A frame of NaN.
EmptyFrame(index, cols) ==
    [index |-> index, cols |-> cols, v |-> [t \in cols |-> [d \in index |-> NaN]]]

\* The model calls of one rebalance date (lines 39-43) on a model with cached
\* factor returns fr, given what calculate_factor_exposures did (calc):
\* what is raised, the model's fields afterwards and the weights.
RebalanceGiven(fe, fr, calc, window_data, target) ==
    IF calc.raised # "none"
    THEN [raised |-> calc.raised, fe |-> fe, fr |-> fr, weights |-> NoTable]
    ELSE ConstructResult(
             EstimateGiven([raised |-> "none", fe |-> Some(calc.tab)], fr,
                           DropNaRows(PctChange(DfClose(window_data)))),
             target)

(***************************************************************************)
(* PortfolioPerformance.                                                   *)
(***************************************************************************)
NoSeries == [d \in {} |-> NaN]

\* Series.align(other, join='inner'): both series on their common dates.
AlignInner(a, b) ==
    [left |-> [d \in DOMAIN a \cap DOMAIN b |-> a[d]],
     right |-> [d \in DOMAIN a \cap DOMAIN b |-> b[d]]]

\* np.mean(series) (Series.mean, skipping NaN).
Mean(ser) == NanMean(ser, DOMAIN ser)

\* Lines 54-59: beta = covariance / benchmark_var.  The daily risk-free rate
\* subtracted from both series cancels in the covariance and the variance.
Beta(p, b) ==
    Div(Sub(Mean([d \in DOMAIN p \cap DOMAIN b |-> Mul(p[d], b[d])]),
            Mul(Mean(p), Mean(b))),
        Var(b, DOMAIN b))

\* alpha_beta on the aligned series: the length check of line 50, then beta.
\* (alpha needs the irrational daily risk-free rate and is not represented.)
AlphaBeta(p, b) ==
    IF Cardinality(DOMAIN p) # Cardinality(DOMAIN b)
    THEN [raised |-> "ValueError", beta |-> NaN]
    ELSE [raised |-> "none", beta |-> Beta(p, b)]

\* total_return: (portfolio_returns + 1).prod() - 1
RECURSIVE ProdPlusOne(_, _)
ProdPlusOne(ser, S) ==
    IF S = {} THEN One
    ELSE Mul(Add(ser[SetMax(S)], One), ProdPlusOne(ser, S \ {SetMax(S)}))

TotalReturn(p) == Sub(ProdPlusOne(p, {d \in DOMAIN p : ~IsNaN(p[d])}), One)

(***************************************************************************)
(* Inputs of the model.                                                    *)
(***************************************************************************)
\* Windows hold at most MaxDates dates 1..MaxDates, prices are 0..MaxPrice.
MaxDates == 3
MaxPrice == 2
\* Calls made on one FactorModel object in a behaviour of Spec.
MaxCalls == 2

\* The benchmark ticker the model is created for.
Benchmark == "SPY"

Prices == {IntVal(p) : p \in 0..MaxPrice}

\* All price series on the dates lo..hi.
SeriesOn(lo, hi) == [lo..hi -> Prices]

\* Price series of given shapes on the dates lo..hi.
Flat(lo, hi) == [d \in lo..hi |-> IntVal(1)]
Saw(lo, hi) == [d \in lo..hi |-> IntVal(1 + (d % 2))]
Rise(lo, hi) == [d \in lo..hi |-> IntVal(IF d = lo THEN 1 ELSE 2)]

\* A window: ticker A with any series on 1..n; optionally ticker B with an
\* alternating series on 1..n or (a later first date) on 2..n; optionally the
\* benchmark with a rising series.
WindowsOf(n) ==
    LET As == SeriesOn(1, n)
    IN {[t \in {"A"} |-> a] : a \in As}
       \cup {[t \in {"A", "B"} |-> IF t = "A" THEN a ELSE b] :
             a \in As, b \in {Saw(1, n), Saw(2, n)}}
       \cup {[t \in {"A", "B", Benchmark} |->
                IF t = "A" THEN a ELSE IF t = "B" THEN Saw(1, n) ELSE Rise(1, n)] :
             a \in As}

Windows == UNION {WindowsOf(n) : n \in 0..MaxDates}

\* Target exposure vectors: the backtester's, and others with zero, negative
\* and budget-exhausting entries.
TargetOf(m, s, v, mo) ==
    [f \in Factors |->
       CASE f = "Market" -> m [] f = "Size" -> s [] f = "Value" -> v [] f = "Momentum" -> mo]

DefaultTarget == TargetOf(One, <<-1, 5>>, <<1, 2>>, <<3, 10>>)

Targets ==
    {DefaultTarget,
     TargetOf(Zero, Zero, Zero, Zero),
     TargetOf(<<1, 2>>, <<-1, 2>>, Zero, Zero),
     TargetOf(<<-1, 2>>, <<1, 5>>, Zero, Zero),
     TargetOf(Zero, Zero, <<2, 1>>, <<1, 1>>)}

NoTarget == TargetOf(Zero, Zero, Zero, Zero)

\* The windows and targets of the calls made in sequence on one model.
CallWindows ==
    {[t \in {"A"} |-> Rise(1, MaxDates)],
     [t \in {"A"} |-> Flat(1, MaxDates)],
     [t \in {"A"} |-> Flat(1, 0)],
     [t \in {"A", "B"} |-> IF t = "A" THEN Rise(1, MaxDates) ELSE Saw(1, MaxDates)],
     [t \in {"A", "B"} |-> IF t = "A" THEN Saw(1, MaxDates) ELSE Flat(2, MaxDates)],
     [t \in {"A", "B", Benchmark} |->
        IF t = "A" THEN Saw(1, MaxDates)
        ELSE IF t = "B" THEN Flat(1, MaxDates) ELSE Rise(1, MaxDates)]}

CallTargets == {DefaultTarget, TargetOf(<<1, 2>>, <<-1, 2>>, Zero, Zero)}

\* Histories of the backtest: calendar days 1..n, n up to MaxDay.
MaxDay == 23
HistoryLengths == {6, MaxDay}

\* The days with prices: every day (gap 0), or every day but the multiples of
\* gap (days without trading).
TradingDays(n, gap) == {d \in 1..n : gap = 0 \/ d % gap # 0}

\* The price of a ticker on a day; ticker A has one of three shapes.
PriceOn(t, shape, d) ==
    IF t = "A"
    THEN (CASE shape = "saw" -> IntVal(1 + (d % 2))
            [] shape = "flat" -> IntVal(1)
            [] shape = "dip" -> IntVal(IF d = 6 THEN 0 ELSE 1 + (d % 2)))
    ELSE IF t = "B" THEN IntVal(1 + ((d \div 2) % 2))
    ELSE IntVal(1 + ((d \div 3) % 2))

\* A history: the tickers' prices on the trading days; ticker B has prices
\* from first_B on.
History(n, gap, shape, tickers, first_B) ==
    [t \in tickers |->
       [d \in {e \in TradingDays(n, gap) : t # "B" \/ e >= first_B} |->
          PriceOn(t, shape, d)]]

\* With and without ticker B, B listed from day 1 or day 4, and histories
\* that lack the benchmark.
Histories ==
    {History(n, gap, shape, tickers, 1) :
       n \in HistoryLengths, gap \in {0, 7}, shape \in {"saw", "flat", "dip"},
       tickers \in {{"A", Benchmark}, {"A", "B", Benchmark}}}
    \cup {History(n, gap, "saw", {"A", "B", Benchmark}, 4) :
            n \in HistoryLengths, gap \in {0, 7}}
    \cup {History(n, 0, "saw", {"A", "B"}, 1) : n \in HistoryLengths}

\* Rebalance periods (days per period) and window sizes (days).
PeriodLengths == {3, 7}
WindowSizes == {0, 2, 5}

\* Return series given to PortfolioPerformance: dates within 1..MaxObs.
MaxObs == 3
PerfValues == {Zero, <<1, 2>>, <<-1, 2>>}
PortfolioSeries == UNION {[D -> PerfValues] : D \in SUBSET (1..MaxObs)}
BenchmarkSeries ==
    {[d \in D |-> IF d % 2 = 0 THEN <<1, 2>> ELSE <<-1, 4>>] : D \in SUBSET (1..MaxObs)}

\* Weight histories given to calculate_turnover: up to MaxRows dates, the columns
\* in either order, weights from WeightValues.
MaxRows == 2
WeightValues == {Zero, One, <<-1, 2>>, NaN}
ColumnOrders == {<<>>, <<"A">>, <<"A", "B">>, <<"B", "A">>}
Range(seq) == {seq[i] : i \in DOMAIN seq}
WeightHistories ==
    UNION {{[index |-> 1..n, order |-> order, v |-> v] :
              v \in [Range(order) -> [1..n -> WeightValues]]} :
           n \in 0..MaxRows, order \in ColumnOrders}

\* fetch_historical_data: the tickers known, the lists requested, the date
\* ranges (day numbers, the last one MaxSpan days long) and what the remote
\* service does for a ticker: bars in every chunk, no bars, or an error.
MaxSpan == 740
FetchTickers == {"A", "B"}
TickerLists == {<<"A">>, <<"A", "B">>}
EndDays == {0, 1, 365, 366, 367, MaxSpan}
RemoteOutcomes == {"bars", "empty", "error"}
FetchArgs ==
    [mode : {"on_demand", "persistent"}, tickers : TickerLists, start : {0},
     end : EndDays, csv_files : SUBSET FetchTickers,
     remote : [FetchTickers -> RemoteOutcomes]]

\* The rate limiter is observed up to MaxTime seconds; between two calls the
\* clock stands still or advances by one of ClockSteps.
MaxTime == 120
ClockSteps == {15, 25}

(***************************************************************************)
(* State.                                                                  *)
(***************************************************************************)
VARIABLES
    factor_exposures,   \* self.factor_exposures of the FactorModel
    factor_returns,     \* self.factor_returns of the FactorModel
    call,               \* the last call on the model: op, window, target, raised
    ret_exposures,      \* the table calculate_factor_exposures returned
    ret_freturns,       \* the table estimate_factor_returns returned
    ret_weights,        \* the weights construct_portfolio returned
    ncalls,             \* calls made on the model so far
    prev_call,          \* the call before the last one, and the table it returned
    bt_pc,              \* backtest_strategy: "idle", "loop", "returned", "raised"
    bt_args,            \* its arguments: historical_data, period_len, window_size,
                        \* and whether the model has a benchmark_ticker attribute
    bt_raised,          \* the exception that ended it, or "none"
    returns_data,       \* its local returns_data
    rebalance_todo,     \* the rebalance dates the loop has still to process
    portfolio_returns,  \* its local portfolio_returns
    portfolio_weights,  \* its local portfolio_weights
    bt_log,             \* per processed rebalance date: window, weights, block
    bt_result,          \* the pair it returned
    pp_args,            \* the two series given to PortfolioPerformance(...)
    pp,                 \* the PortfolioPerformance object
    pp_call,            \* the last call on it: op, raised, beta, total_return
    prep_in,            \* the argument of prepare_returns_data
    prep_out,           \* what prepare_returns_data returned
    clock,              \* time.time(), in seconds since the DataFetcher was created
    request_count,      \* self.request_count of the DataFetcher
    last_reset_time,    \* self.last_reset_time
    last_request_time,  \* self.last_request_time
    let_through,        \* the times at which _rate_limit returned, within the
                        \* last RateWindow seconds
    turnover_in,        \* the weight history given to calculate_turnover
    turnover_out,       \* what calculate_turnover returned
    fetch_args,         \* fetch_historical_data: mode, tickers, start, end (day
                        \* numbers), the cache files at the call and what the
                        \* remote service does for each ticker
    fetch_pc,           \* "idle", "tickers" (in _fetch_and_save_tickers), "returned"
    csv_files,          \* the tickers with a CSV file in data_dir
    fetch_todo,         \* the tickers _fetch_and_save_tickers has still to fetch
    current_start,      \* current_start of _fetch_ticker_data for the first of them
    all_data,           \* its all_data: the chunks fetched so far
    fetched_data,       \* the mapping being built, ticker -> source and chunks
    requests            \* the remote requests made: ticker, from, to

model_vars == <<factor_exposures, factor_returns, call, ret_exposures, ret_freturns,
                ret_weights, ncalls, prev_call>>
bt_vars == <<bt_pc, bt_args, bt_raised, returns_data, rebalance_todo,
             portfolio_returns, portfolio_weights, bt_log, bt_result>>
pp_vars == <<pp_args, pp, pp_call>>
prep_vars == <<prep_in, prep_out>>
rate_vars == <<clock, request_count, last_reset_time, last_request_time, let_through>>
turnover_vars == <<turnover_in, turnover_out>>
fetch_vars == <<fetch_args, fetch_pc, csv_files, fetch_todo, current_start, all_data,
                fetched_data, requests>>
vars == <<model_vars, bt_vars, pp_vars, prep_vars, rate_vars, turnover_vars, fetch_vars>>

NoCall == [op |-> "none", window |-> NoTable, target |-> NoTarget, raised |-> "none"]
NoFrame == [index |-> {}, cols |-> {}, v |-> NoTable]
NoArgs == [historical_data |-> NoTable, period_len |-> 1, window_size |-> 0,
           has_benchmark_ticker |-> FALSE]
NoResult == [returns |-> NoSeries, weights |-> NoFrame]
NoPerf == [made |-> FALSE, portfolio_returns |-> NoSeries, benchmark_returns |-> NoSeries]
NoPerfArgs == [portfolio_returns |-> NoSeries, benchmark_returns |-> NoSeries]
NoPerfCall == [op |-> "none", raised |-> "none", beta |-> NaN, total_return |-> NaN]

\* FactorModel.__init__
InitModel ==
    /\ factor_exposures = None
    /\ factor_returns = None
    /\ call = NoCall
    /\ ret_exposures = NoTable
    /\ ret_freturns = NoTable
    /\ ret_weights = NoTable
    /\ ncalls = 0
    /\ prev_call = [call |-> NoCall, ret_exposures |-> NoTable]

\* No backtest under way.
InitBacktest(args) ==
    /\ bt_pc = "idle"
    /\ bt_args = args
    /\ bt_raised = "none"
    /\ returns_data = NoFrame
    /\ rebalance_todo = <<>>
    /\ portfolio_returns = NoSeries
    /\ portfolio_weights = NoFrame
    /\ bt_log = <<>>
    /\ bt_result = NoResult

\* No PortfolioPerformance object yet.
InitPerf(args) ==
    /\ pp_args = args
    /\ pp = NoPerf
    /\ pp_call = NoPerfCall

InitPrep(historical_data) ==
    /\ prep_in = historical_data
    /\ prep_out = [returned |-> FALSE, frame |-> NoFrame]

\* A weight history: its dates, its columns in their order, and v[column][date].
NoHistory == [index |-> {}, order |-> <<>>, v |-> NoTable]

InitTurnover(weights) ==
    /\ turnover_in = weights
    /\ turnover_out = [returned |-> FALSE, value |-> NaN]

NoFetchArgs == [mode |-> "on_demand", tickers |-> <<>>, start |-> 0, end |-> 0,
                csv_files |-> {}, remote |-> NoTable]

\* No fetch_historical_data call yet.
InitFetch(args) ==
    /\ fetch_args = args
    /\ fetch_pc = "idle"
    /\ csv_files = args.csv_files
    /\ fetch_todo = <<>>
    /\ current_start = 0
    /\ all_data = <<>>
    /\ fetched_data = NoTable
    /\ requests = <<>>

\* DataFetcher.__init__ (lines 19-22), at time 0.
InitFetcher ==
    /\ clock = 0
    /\ request_count = 0
    /\ last_reset_time = 0
    /\ last_request_time = 0
    /\ let_through = <<>>

\* calculate_factor_exposures that gives back nothing, and forgets the cached
\* table, when a table is cached.
CallCalculate_ForgetsCache(W) ==
    \E r \in {CalculateFactorExposures(W)} :
       /\ factor_exposures' = IF r.raised = "none" /\ ~factor_exposures.some
                              THEN Some(r.tab) ELSE None
       /\ call' = [op |-> "calculate_factor_exposures", window |-> W,
                   target |-> NoTarget, raised |-> r.raised]
       /\ ret_exposures' = IF factor_exposures.some THEN NoTable ELSE r.tab
       /\ ret_freturns' = NoTable
       /\ ret_weights' = NoTable
       /\ ncalls' = ncalls + 1
       /\ prev_call' = [call |-> call, ret_exposures |-> ret_exposures]
       /\ UNCHANGED <<factor_returns, bt_vars, pp_vars, prep_vars, rate_vars, turnover_vars, fetch_vars>>

\* model.calculate_factor_exposures(W)
CallCalculate(W) ==
    \E r \in {CalculateFactorExposures(W)} :
       /\ factor_exposures' = IF r.raised = "none" THEN Some(r.tab) ELSE factor_exposures
       /\ call' = [op |-> "calculate_factor_exposures", window |-> W,
                   target |-> NoTarget, raised |-> r.raised]
       /\ ret_exposures' = r.tab
       /\ ret_freturns' = NoTable
       /\ ret_weights' = NoTable
       /\ ncalls' = ncalls + 1
       /\ prev_call' = [call |-> call, ret_exposures |-> ret_exposures]
       /\ UNCHANGED <<factor_returns, bt_vars, pp_vars, prep_vars, rate_vars, turnover_vars, fetch_vars>>

\* model.estimate_factor_returns(W)
CallEstimate(W) ==
    \E r \in {EstimateFactorReturns(factor_exposures, factor_returns, W)} :
       /\ factor_exposures' = r.fe
       /\ factor_returns' = r.fr
       /\ call' = [op |-> "estimate_factor_returns", window |-> W,
                   target |-> NoTarget, raised |-> r.raised]
       /\ ret_exposures' = NoTable
       /\ ret_freturns' = r.tab
       /\ ret_weights' = NoTable
       /\ ncalls' = ncalls + 1
       /\ prev_call' = [call |-> call, ret_exposures |-> ret_exposures]
       /\ UNCHANGED <<bt_vars, pp_vars, prep_vars, rate_vars, turnover_vars, fetch_vars>>

\* model.construct_portfolio(W, target)
CallConstruct(W, target) ==
    \E r \in {ConstructPortfolio(factor_exposures, factor_returns, W, target)} :
       /\ factor_exposures' = r.fe
       /\ factor_returns' = r.fr
       /\ call' = [op |-> "construct_portfolio", window |-> W,
                   target |-> target, raised |-> r.raised]
       /\ ret_exposures' = NoTable
       /\ ret_freturns' = NoTable
       /\ ret_weights' = r.weights
       /\ ncalls' = ncalls + 1
       /\ prev_call' = [call |-> call, ret_exposures |-> ret_exposures]
       /\ UNCHANGED <<bt_vars, pp_vars, prep_vars, rate_vars, turnover_vars, fetch_vars>>

Init ==
    /\ InitModel
    /\ InitBacktest(NoArgs)
    /\ InitPerf(NoPerfArgs)
    /\ InitPrep(NoTable)
    /\ InitFetcher
    /\ InitTurnover(NoHistory)
    /\ InitFetch(NoFetchArgs)

\* Calls in sequence on one model.
Next ==
    /\ ncalls < MaxCalls
    /\ \E W \in CallWindows :
         \/ CallCalculate(W)
         \/ CallEstimate(W)
         \/ \E target \in CallTargets : CallConstruct(W, target)

Spec == Init /\ [][Next]_vars

\* One call on a fresh model, over all windows and targets.
NextFresh ==
    /\ ncalls = 0
    /\ \E W \in Windows :
         \/ CallCalculate(W)
         \/ CallEstimate(W)
         \/ \E target \in Targets : CallConstruct(W, target)

SpecFresh == Init /\ [][NextFresh]_vars

(***************************************************************************)
(* backtest_strategy(historical_data, model, rebalance_frequency,          *)
(* window_size) with a fresh model.  FactorModel.__init__ sets no           *)
(* benchmark_ticker; the model has the attribute (with value Benchmark)    *)
(* only when the caller has set it.                                        *)
(***************************************************************************)
\* Line 31: model.benchmark_ticker and the benchmark column of the returns.
BenchmarkLookup(has_benchmark_ticker, cols) ==
    IF ~has_benchmark_ticker THEN "AttributeError"
    ELSE IF Benchmark \notin cols THEN "KeyError"
    ELSE "none"

\* Lines 24-34: the returns table, the two result tables of NaN, the
\* benchmark column and the dates of the loop.
BacktestStart ==
    /\ bt_pc = "idle"
    /\ \E r \in {PrepareReturnsData(bt_args.historical_data)} :
          /\ returns_data' = r
          /\ portfolio_returns' = [d \in r.index |-> NaN]
          /\ portfolio_weights' = EmptyFrame(r.index, r.cols)
          /\ bt_raised' = BenchmarkLookup(bt_args.has_benchmark_ticker, r.cols)
          /\ IF BenchmarkLookup(bt_args.has_benchmark_ticker, r.cols) = "none"
             THEN /\ bt_pc' = "loop"
                  /\ rebalance_todo' =
                        RebalanceDates(DropColumn(r, Benchmark).index, bt_args.period_len)
             ELSE /\ bt_pc' = "raised"
                  /\ UNCHANGED rebalance_todo
    /\ UNCHANGED <<bt_args, bt_log, bt_result, model_vars, pp_vars, prep_vars, rate_vars, turnover_vars, fetch_vars>>

\* One pass of the loop (lines 34-51), for the rebalance date end_date with
\* its window, calc being what calculate_factor_exposures did and r what the
\* three model calls did together.
RebalanceWith(end_date, window_data, calc, r) ==
    /\ factor_exposures' = r.fe
    /\ factor_returns' = r.fr
    /\ call' = [op |-> IF calc.raised # "none" THEN "calculate_factor_exposures"
                       ELSE IF r.raised # "none" THEN "estimate_factor_returns"
                       ELSE "construct_portfolio",
                window |-> window_data, target |-> DefaultTarget, raised |-> r.raised]
    /\ ret_exposures' = NoTable
    /\ ret_freturns' = NoTable
    /\ ret_weights' = r.weights
    /\ ncalls' = ncalls + (IF calc.raised # "none" THEN 1
                           ELSE IF r.raised # "none" THEN 2 ELSE 3)
    /\ prev_call' = [call |-> call, ret_exposures |-> ret_exposures]
    /\ bt_log' = Append(bt_log,
                        [date |-> end_date,
                         window |-> window_data,
                         raised |-> r.raised,
                         weights |-> r.weights,
                         block |-> IF r.raised = "none"
                                   THEN FutureDates(returns_data.index, end_date)
                                   ELSE {}])
    /\ IF r.raised = "none"
       THEN /\ portfolio_weights' = AssignWeights(portfolio_weights, r.weights, end_date)
            /\ portfolio_returns' =
                  AssignReturns(portfolio_returns, DropColumn(returns_data, Benchmark),
                                r.weights, end_date)
            /\ rebalance_todo' = Tail(rebalance_todo)
            /\ UNCHANGED <<bt_pc, bt_raised>>
       ELSE /\ bt_pc' = "raised"
            /\ bt_raised' = r.raised
            /\ UNCHANGED <<portfolio_weights, portfolio_returns, rebalance_todo>>
    /\ UNCHANGED <<bt_args, returns_data, bt_result, pp_vars, prep_vars, rate_vars, turnover_vars, fetch_vars>>

BacktestRebalance ==
    /\ bt_pc = "loop"
    /\ rebalance_todo # <<>>
    /\ \E window_data \in {WindowData(bt_args.historical_data, Benchmark,
                                      Head(rebalance_todo), bt_args.window_size)} :
          \E calc \in {CalculateFactorExposures(window_data)} :
             \E r \in {RebalanceGiven(factor_exposures, factor_returns, calc,
                                      window_data, DefaultTarget)} :
                RebalanceWith(Head(rebalance_todo), window_data, calc, r)

\* Line 54: return portfolio_returns.dropna(), portfolio_weights.dropna()
BacktestReturn ==
    /\ bt_pc = "loop"
    /\ rebalance_todo = <<>>
    /\ bt_pc' = "returned"
    /\ bt_result' = [returns |-> DropNaSeries(portfolio_returns),
                     weights |-> DropNaRows(portfolio_weights)]
    /\ UNCHANGED <<bt_args, bt_raised, returns_data, rebalance_todo, portfolio_returns,
                   portfolio_weights, bt_log, model_vars, pp_vars, prep_vars, rate_vars, turnover_vars, fetch_vars>>

InitBT ==
    /\ InitModel
    /\ \E h \in Histories, period_len \in PeriodLengths, window_size \in WindowSizes,
          has_benchmark_ticker \in BOOLEAN :
          InitBacktest([historical_data |-> h, period_len |-> period_len,
                        window_size |-> window_size,
                        has_benchmark_ticker |-> has_benchmark_ticker])
    /\ InitPerf(NoPerfArgs)
    /\ InitPrep(NoTable)
    /\ InitFetcher
    /\ InitTurnover(NoHistory)
    /\ InitFetch(NoFetchArgs)

NextBT == BacktestStart \/ BacktestRebalance \/ BacktestReturn

SpecBT == InitBT /\ [][NextBT]_vars

(***************************************************************************)
(* PortfolioPerformance(portfolio_returns, benchmark_returns).             *)
(***************************************************************************)
\* __init__ (lines 8-19): the two series are kept on their common dates.
PerfInit ==
    /\ ~pp.made
    /\ \E r \in {AlignInner(pp_args.portfolio_returns, pp_args.benchmark_returns)} :
          pp' = [made |-> TRUE, portfolio_returns |-> r.left,
                 benchmark_returns |-> r.right]
    /\ pp_call' = [NoPerfCall EXCEPT !.op = "__init__"]
    /\ UNCHANGED <<pp_args, model_vars, bt_vars, prep_vars, rate_vars, turnover_vars, fetch_vars>>

\* alpha_beta() (lines 43-62)
PerfAlphaBeta ==
    /\ pp.made
    /\ \E r \in {AlphaBeta(pp.portfolio_returns, pp.benchmark_returns)} :
          pp_call' = [op |-> "alpha_beta", raised |-> r.raised, beta |-> r.beta,
                      total_return |-> NaN]
    /\ UNCHANGED <<pp_args, pp, model_vars, bt_vars, prep_vars, rate_vars, turnover_vars, fetch_vars>>

\* summary() (lines 84-98): alpha_beta first, then the other metrics, of which
\* annualized_return divides by len(portfolio_returns) / 252.
PerfSummary ==
    /\ pp.made
    /\ \E r \in {AlphaBeta(pp.portfolio_returns, pp.benchmark_returns)} :
          pp_call' =
             IF r.raised # "none"
             THEN [op |-> "summary", raised |-> r.raised, beta |-> NaN,
                   total_return |-> NaN]
             ELSE IF DOMAIN pp.portfolio_returns = {}
             THEN [op |-> "summary", raised |-> "ZeroDivisionError", beta |-> NaN,
                   total_return |-> NaN]
             ELSE [op |-> "summary", raised |-> "none", beta |-> r.beta,
                   total_return |-> TotalReturn(pp.portfolio_returns)]
    /\ UNCHANGED <<pp_args, pp, model_vars, bt_vars, prep_vars, rate_vars, turnover_vars, fetch_vars>>

InitPP ==
    /\ InitModel
    /\ InitBacktest(NoArgs)
    /\ \E p \in PortfolioSeries, b \in BenchmarkSeries :
          InitPerf([portfolio_returns |-> p, benchmark_returns |-> b])
    /\ InitPrep(NoTable)
    /\ InitFetcher
    /\ InitTurnover(NoHistory)
    /\ InitFetch(NoFetchArgs)

NextPP == PerfInit \/ PerfAlphaBeta \/ PerfSummary

SpecPP == InitPP /\ [][NextPP]_vars

(***************************************************************************)
(* prepare_returns_data(historical_data).                                  *)
(***************************************************************************)
PrepareReturns ==
    /\ ~prep_out.returned
    /\ prep_out' = [returned |-> TRUE, frame |-> PrepareReturnsData(prep_in)]
    /\ UNCHANGED <<prep_in, model_vars, bt_vars, pp_vars, rate_vars, turnover_vars, fetch_vars>>

InitPrepare ==
    /\ InitModel
    /\ InitBacktest(NoArgs)
    /\ InitPerf(NoPerfArgs)
    /\ \E h \in Windows : InitPrep(h)
    /\ InitFetcher
    /\ InitTurnover(NoHistory)
    /\ InitFetch(NoFetchArgs)

NextPrepare == PrepareReturns

SpecPrepare == InitPrepare /\ [][NextPrepare]_vars

(***************************************************************************)
(* calculate_turnover(portfolio_weights).                                  *)
(***************************************************************************)
\* The sum of a sequence of numbers in its order, NaN left out (sum(axis=1)).
RECURSIVE SumInOrder(_)
SumInOrder(xs) ==
    IF xs = <<>> THEN Zero
    ELSE IF IsNaN(xs[Len(xs)]) THEN SumInOrder(SubSeq(xs, 1, Len(xs) - 1))
    ELSE Add(SumInOrder(SubSeq(xs, 1, Len(xs) - 1)), xs[Len(xs)])

\* portfolio_weights.diff().abs() at column c and date d: NaN in the first row.
AbsDiff(W, c, d) ==
    IF {e \in W.index : e < d} = {} THEN NaN
    ELSE Abs(Sub(W.v[c][d], W.v[c][SetMax({e \in W.index : e < d})]))

\* weight_changes = portfolio_weights.diff().abs().sum(axis=1)
WeightChanges(W) ==
    [d \in W.index |-> SumInOrder([i \in DOMAIN W.order |-> AbsDiff(W, W.order[i], d)])]

\* Lines 111-112: weight_changes.mean() / 2
CalculateTurnover(W) == Div(NanMean(WeightChanges(W), W.index), IntVal(2))

TurnoverCall ==
    /\ ~turnover_out.returned
    /\ turnover_out' = [returned |-> TRUE, value |-> CalculateTurnover(turnover_in)]
    /\ UNCHANGED <<turnover_in, model_vars, bt_vars, pp_vars, prep_vars, rate_vars,
                   fetch_vars>>

InitTurnoverAny ==
    /\ InitModel
    /\ InitBacktest(NoArgs)
    /\ InitPerf(NoPerfArgs)
    /\ InitPrep(NoTable)
    /\ InitFetcher
    /\ \E W \in WeightHistories : InitTurnover(W)
    /\ InitFetch(NoFetchArgs)

NextTurnover == TurnoverCall

SpecTurnover == InitTurnoverAny /\ [][NextTurnover]_vars

(***************************************************************************)
(* DataFetcher._rate_limit.                                                *)
(***************************************************************************)
\* "if current_time - self.last_reset_time >= 60" and "60 - (...)".
RateWindow == 60
\* "if self.request_count >= 5"
RateLimit == 5

\* Lines 134-136: the counter and the reset time after the minute test.
AfterMinuteReset(current_time, count, reset_time) ==
    IF current_time - reset_time >= RateWindow
    THEN [request_count |-> 0, last_reset_time |-> current_time]
    ELSE [request_count |-> count, last_reset_time |-> reset_time]

\* Lines 139-144: the time at which the call goes on, after the sleep if any.
TimeAfterWait(current_time, r) ==
    IF r.request_count >= RateLimit
       /\ RateWindow - (current_time - r.last_reset_time) > 0
    THEN current_time + (RateWindow - (current_time - r.last_reset_time))
    ELSE current_time

\* The entries of a sequence of times that lie less than RateWindow before t.
Recent(times, t) == SelectSeq(times, LAMBDA x : x > t - RateWindow)

\* _rate_limit() called at the time of the clock, r being the fields after the
\* minute test and t the time at which the request is let through.
RateLimitWith(r, t) ==
    /\ clock' = t
    /\ request_count' = (IF r.request_count >= RateLimit THEN 0 ELSE r.request_count) + 1
    /\ last_reset_time' = IF r.request_count >= RateLimit THEN t ELSE r.last_reset_time
    /\ last_request_time' = t
    /\ let_through' = Append(Recent(let_through, t), t)

RateLimitCall ==
    /\ clock <= MaxTime
    /\ \E r \in {AfterMinuteReset(clock, request_count, last_reset_time)} :
          RateLimitWith(r, TimeAfterWait(clock, r))
    /\ UNCHANGED <<model_vars, bt_vars, pp_vars, prep_vars, turnover_vars, fetch_vars>>

\* Time passes between two calls.
ClockAdvance ==
    /\ \E d \in ClockSteps :
          /\ clock + d <= MaxTime
          /\ clock' = clock + d
    /\ let_through' = Recent(let_through, clock')
    /\ UNCHANGED <<request_count, last_reset_time, last_request_time,
                   model_vars, bt_vars, pp_vars, prep_vars, turnover_vars, fetch_vars>>

NextRate == RateLimitCall \/ ClockAdvance

SpecRate == Init /\ [][NextRate]_vars

(***************************************************************************)
(* DataFetcher.fetch_historical_data.                                      *)
(***************************************************************************)
\* chunk_size = timedelta(days=365)
ChunkDays == 365

\* Line 93: current_end = min(current_start + chunk_size, end)
CurrentEnd(start, end) == IF start + ChunkDays < end THEN start + ChunkDays ELSE end

\* All orders in which the tickers of a set can be iterated.
Orders(S) ==
    {seq \in [1..Cardinality(S) -> S] : \A i, j \in DOMAIN seq : i # j => seq[i] # seq[j]}

\* Lines 51-55: one entry per CSV file of the directory.
LoadedFromFiles(files) == [t \in files |-> [source |-> "cache", chunks |-> <<>>]]

\* Lines 123-128 of _fetch_ticker_data: no chunk gives an empty frame; chunks
\* without any bar give a frame without a 'timestamp' column, on which
\* set_index raises KeyError.
TickerFrame(chunks) ==
    IF chunks = <<>> THEN [raised |-> "none", empty |-> TRUE]
    ELSE IF \A i \in DOMAIN chunks : ~chunks[i].bars
    THEN [raised |-> "KeyError", empty |-> TRUE]
    ELSE [raised |-> "none", empty |-> FALSE]

\* The ticker is kept whatever was fetched for it.
KeepTicker_Always(frame) == TRUE

\* Lines 69-82: the ticker is kept unless an exception was raised or the frame
\* is empty.
KeepTicker(frame) == frame.raised = "none" /\ ~frame.empty

\* Lines 47-64: load the cache (persistent mode) and pick the tickers to fetch.
FetchBegin ==
    /\ fetch_pc = "idle"
    /\ fetch_args.tickers # <<>>
    /\ fetch_pc' = "tickers"
    /\ IF fetch_args.mode = "persistent"
       THEN /\ fetched_data' = LoadedFromFiles(csv_files)
            /\ fetch_todo' \in Orders(Range(fetch_args.tickers) \ csv_files)
       ELSE /\ fetched_data' = NoTable
            /\ fetch_todo' = fetch_args.tickers
    /\ current_start' = fetch_args.start
    /\ all_data' = <<>>
    /\ UNCHANGED <<fetch_args, csv_files, requests, model_vars, bt_vars, pp_vars,
                   prep_vars, rate_vars, turnover_vars>>

\* The next ticker of the loop of _fetch_and_save_tickers.
NextTicker ==
    /\ fetch_todo' = Tail(fetch_todo)
    /\ current_start' = fetch_args.start
    /\ all_data' = <<>>

\* One pass of the chunk loop (lines 92-121): the rate limiter, the request,
\* and the chunk appended; an error of the request ends the ticker (line 81).
FetchChunkWith(ticker, r) ==
    /\ RateLimitWith(r, TimeAfterWait(clock, r))
    /\ requests' = Append(requests,
                          [ticker |-> ticker, from |-> current_start,
                           to |-> CurrentEnd(current_start, fetch_args.end)])
    /\ IF fetch_args.remote[ticker] = "error"
       THEN NextTicker
       ELSE /\ all_data' = Append(all_data,
                                  [from |-> current_start,
                                   to |-> CurrentEnd(current_start, fetch_args.end),
                                   bars |-> fetch_args.remote[ticker] = "bars"])
            /\ current_start' = CurrentEnd(current_start, fetch_args.end) + 1
            /\ UNCHANGED fetch_todo
    /\ UNCHANGED <<fetch_args, fetch_pc, csv_files, fetched_data, model_vars, bt_vars,
                   pp_vars, prep_vars, turnover_vars>>

FetchChunk ==
    /\ fetch_pc = "tickers"
    /\ fetch_todo # <<>>
    /\ current_start < fetch_args.end
    /\ \E r \in {AfterMinuteReset(clock, request_count, last_reset_time)} :
          FetchChunkWith(Head(fetch_todo), r)

\* The end of _fetch_ticker_data (lines 123-128) and the rest of the loop body
\* of _fetch_and_save_tickers (lines 72-82).
FetchTickerDone ==
    /\ fetch_pc = "tickers"
    /\ fetch_todo # <<>>
    /\ ~(current_start < fetch_args.end)
    /\ IF KeepTicker(TickerFrame(all_data))
       THEN /\ csv_files' = IF fetch_args.mode = "persistent"
                            THEN csv_files \cup {Head(fetch_todo)} ELSE csv_files
            /\ fetched_data' =
                  [t \in DOMAIN fetched_data \cup {Head(fetch_todo)} |->
                     IF t = Head(fetch_todo)
                     THEN [source |-> "remote", chunks |-> all_data]
                     ELSE fetched_data[t]]
       ELSE UNCHANGED <<csv_files, fetched_data>>
    /\ NextTicker
    /\ UNCHANGED <<fetch_args, fetch_pc, requests, model_vars, bt_vars, pp_vars,
                   prep_vars, rate_vars, turnover_vars>>

\* Line 65: return historical_data
FetchReturn ==
    /\ fetch_pc = "tickers"
    /\ fetch_todo = <<>>
    /\ fetch_pc' = "returned"
    /\ UNCHANGED <<fetch_args, csv_files, fetch_todo, current_start, all_data,
                   fetched_data, requests, model_vars, bt_vars, pp_vars, prep_vars,
                   rate_vars, turnover_vars>>

InitFetchAny ==
    /\ InitModel
    /\ InitBacktest(NoArgs)
    /\ InitPerf(NoPerfArgs)
    /\ InitPrep(NoTable)
    /\ InitFetcher
    /\ InitTurnover(NoHistory)
    /\ \E args \in FetchArgs : InitFetch(args)

NextFetch == FetchBegin \/ FetchChunk \/ FetchTickerDone \/ FetchReturn

SpecFetch == InitFetchAny /\ [][NextFetch]_vars

(***************************************************************************)
(* Claims about FactorModel.                                               *)
(***************************************************************************)
Returned(op) == call.op = op /\ call.raised = "none"

AllZero(w) == \A t \in DOMAIN w : w[t] = Zero

\* The sum of a vector, as Series.sum().
SignedSum(w) == NanSum(w, DOMAIN w)

\* The n-th factor adds a non-zero weight to some asset, given the budget the
\* factors before it left.
FactorContributes(exposures, target, n) ==
    /\ Gt0(FactorSum(FactorPortfolio(exposures, target, FactorSeq[n])))
    /\ \E t \in DOMAIN exposures :
         LET inc == FactorIncrement(
                        FactorPortfolio(exposures, target, FactorSeq[n]),
                        FactorSum(FactorPortfolio(exposures, target, FactorSeq[n])),
                        PyMin(AllocateFactors(exposures, target, n - 1).remaining_budget,
                              Abs(target[FactorSeq[n]])))[t]
         IN ~IsNaN(inc) /\ inc # Zero

NoFactorContributes(exposures, target) ==
    \A n \in 1..Len(FactorSeq) : ~FactorContributes(exposures, target, n)

\* The weights of every asset when the factor loop ends are zero or undefined.
NothingAccumulated(exposures, target) ==
    \A t \in DOMAIN exposures :
       AllocateFactors(exposures, target, Len(FactorSeq)).portfolio[t] \in {Zero, NaN}

\* C1 as stated: the weights construct_portfolio returns have an absolute sum
\* of 1 or are all 0, none is undefined, and they are all 0 only when no
\* factor could contribute a non-zero weight.
C1_AsClaimed ==
    Returned("construct_portfolio") =>
       /\ AbsSum(ret_weights) = One \/ AllZero(ret_weights)
       /\ \A t \in DOMAIN ret_weights : IsFinite(ret_weights[t])
       /\ AllZero(ret_weights) => NoFactorContributes(factor_exposures.tab, call.target)

\* C1 amended: the weights construct_portfolio returns have an absolute sum of
\* 1 or are all 0, none is undefined, and they are all 0 only when every
\* asset's weight accumulated over the factors is zero or undefined (no factor
\* contributed, or the contributions cancelled or were undefined).
C1_UnitAbsSumOrZero ==
    Returned("construct_portfolio") =>
       /\ AbsSum(ret_weights) = One \/ AllZero(ret_weights)
       /\ \A t \in DOMAIN ret_weights : IsFinite(ret_weights[t])
       /\ AllZero(ret_weights) => NothingAccumulated(factor_exposures.tab, call.target)

\* C1 witness: an all-zero weight vector over at least one asset is returned
\* although factors contributed non-zero weights.
C1_Witness ==
    /\ Returned("construct_portfolio")
    /\ DOMAIN ret_weights # {}
    /\ AllZero(ret_weights)
    /\ ~NoFactorContributes(factor_exposures.tab, call.target)

MixedTarget(target) ==
    /\ \E f \in Factors : Gt0(target[f])
    /\ \E f \in Factors : Gt0(Neg(target[f]))

\* C2: for a target mixing positive and negative entries, construct_portfolio
\* returns one weight per non-benchmark asset of the window and the weights
\* sum to 1.
C2_SignedSumOne ==
    (Returned("construct_portfolio") /\ MixedTarget(call.target)) =>
       /\ DOMAIN ret_weights = DOMAIN call.window \ {Benchmark}
       /\ SignedSum(ret_weights) = One

\* C3: when the benchmark is in the window, calculate_factor_exposures returns
\* one row per non-benchmark asset and no row for the benchmark.
C3_BenchmarkExcluded ==
    (Returned("calculate_factor_exposures") /\ Benchmark \in DOMAIN call.window) =>
       DOMAIN ret_exposures = DOMAIN call.window \ {Benchmark}

\* C4: every value of every row calculate_factor_exposures returns is defined
\* and finite.
C4_ExposuresFinite ==
    Returned("calculate_factor_exposures") =>
       \A t \in DOMAIN ret_exposures : \A f \in Factors : IsFinite(ret_exposures[t][f])

\* C5: after any earlier calls, estimate_factor_returns(W) and
\* construct_portfolio(W, target) give what a fresh model gives for W.
C5_NoStaleExposures ==
    /\ call.op = "estimate_factor_returns" =>
         \E r \in {EstimateFactorReturns(None, None, call.window)} :
            call.raised = r.raised /\ ret_freturns = r.tab
    /\ call.op = "construct_portfolio" =>
         \E r \in {ConstructPortfolio(None, None, call.window, call.target)} :
            call.raised = r.raised /\ ret_weights = r.weights

\* The factor's products exposure * target have a zero sum of absolute values.
ZeroFactorSum(exposures, target, factor) ==
    FactorSum(FactorPortfolio(exposures, target, factor)) = Zero

IsKept(exposures, target, factor) == ~ZeroFactorSum(exposures, target, factor)

\* self.factors without the factors of zero sum.
KeptFactors(exposures, target) ==
    SelectSeq(FactorSeq, LAMBDA f : IsKept(exposures, target, f))

\* C11: a factor whose products exposure * target have a zero sum of absolute
\* values leaves the running weights and the remaining budget unchanged, and
\* the weights returned are those of the factor list without such factors.
C11_ZeroSumFactorSkipped ==
    Returned("construct_portfolio") =>
       /\ \A n \in 1..Len(FactorSeq) :
             ZeroFactorSum(factor_exposures.tab, call.target, FactorSeq[n]) =>
                AllocateFactors(factor_exposures.tab, call.target, n)
                   = AllocateFactors(factor_exposures.tab, call.target, n - 1)
       /\ ret_weights =
             NormalizeWeights(
                 AllocateList(factor_exposures.tab, call.target,
                              KeptFactors(factor_exposures.tab, call.target)).portfolio)

\* C11 witness: a factor of zero sum is passed over while it had a non-zero
\* target and budget was left, and a later factor is allocated.
C11_Witness ==
    /\ Returned("construct_portfolio")
    /\ \E n \in 1..(Len(FactorSeq) - 1) :
          /\ ZeroFactorSum(factor_exposures.tab, call.target, FactorSeq[n])
          /\ call.target[FactorSeq[n]] # Zero
          /\ Gt0(AllocateFactors(factor_exposures.tab, call.target, n - 1).remaining_budget)
          /\ \E k \in (n + 1)..Len(FactorSeq) :
                FactorContributes(factor_exposures.tab, call.target, k)

\* The allocation made for the n-th factor: min(remaining budget, |target|) for
\* a factor that is allocated, nothing for a factor that is passed over.
AllocationAt(exposures, target, n) ==
    IF IsKept(exposures, target, FactorSeq[n])
    THEN PyMin(AllocateFactors(exposures, target, n - 1).remaining_budget,
               Abs(target[FactorSeq[n]]))
    ELSE Zero

\* The sum of the allocations made for the first n factors.
RECURSIVE AllocatedUpTo(_, _, _)
AllocatedUpTo(exposures, target, n) ==
    IF n = 0 THEN Zero
    ELSE Add(AllocatedUpTo(exposures, target, n - 1),
             AllocationAt(exposures, target, n))

InUnitInterval(x) == IsFinite(x) /\ ~Lt(x, Zero) /\ ~Lt(One, x)

\* C22: after each factor of construct_portfolio the remaining budget lies in
\* [0, 1] and equals 1 minus the sum of the allocations made so far, and a
\* factor processed when no budget is left leaves the running weights as
\* they were.
C22_BudgetAccounting ==
    Returned("construct_portfolio") =>
       \A n \in 1..Len(FactorSeq) :
          /\ InUnitInterval(
                 AllocateFactors(factor_exposures.tab, call.target, n).remaining_budget)
          /\ AllocateFactors(factor_exposures.tab, call.target, n).remaining_budget
                = Sub(One, AllocatedUpTo(factor_exposures.tab, call.target, n))
          /\ AllocateFactors(factor_exposures.tab, call.target, n - 1).remaining_budget = Zero
                => AllocateFactors(factor_exposures.tab, call.target, n).portfolio
                     = AllocateFactors(factor_exposures.tab, call.target, n - 1).portfolio

(***************************************************************************)
(* Claims about DataFetcher._rate_limit.                                   *)
(***************************************************************************)
\* C12: at most 5 requests are let through in any interval of 60 seconds.
C12_AtMostFivePerMinute ==
    Len(Recent(let_through, clock)) <= RateLimit

\* The asset has a price on every date of the window, at least 2 dates, and
\* all its prices are equal.
ConstantPrice(W, t) ==
    /\ Cardinality(DfClose(W).index) >= 2
    /\ DOMAIN W[t] = DfClose(W).index
    /\ \A d, e \in DOMAIN W[t] : W[t][d] = W[t][e]

\* The variance of the window's market returns (line 27 and np.var of line 34).
MarketVariance(W) ==
    Var([d \in DropNaRows(PctChange(DfClose(W))).index |->
           NanMean([t \in DOMAIN W |-> DropNaRows(PctChange(DfClose(W))).v[t][d]],
                   DOMAIN W)],
        DropNaRows(PctChange(DfClose(W))).index)

\* C15 as stated: an asset of constant price over a window of at least 2
\* observations gets Momentum 0 and an undefined Market exposure, whatever the
\* other assets' prices.
C15_AsClaimed ==
    Returned("calculate_factor_exposures") =>
       \A t \in DOMAIN call.window :
          ConstantPrice(call.window, t) =>
             /\ ret_exposures[t]["Momentum"] = Zero
             /\ IsNaN(ret_exposures[t]["Market"])

\* C15 amended: an asset of constant non-zero price gets Momentum 0, and its
\* Market exposure is 0 when the market returns have a positive finite
\* variance and undefined otherwise (always so when every asset's price is
\* constant); for a constant price of 0 both are undefined.
C15_ConstantPriceExposures ==
    Returned("calculate_factor_exposures") =>
       \A t \in DOMAIN call.window :
          ConstantPrice(call.window, t) =>
             IF \E d \in DOMAIN call.window[t] : call.window[t][d] = Zero
             THEN /\ IsNaN(ret_exposures[t]["Momentum"])
                  /\ IsNaN(ret_exposures[t]["Market"])
             ELSE /\ ret_exposures[t]["Momentum"] = Zero
                  /\ ret_exposures[t]["Market"] =
                        (IF IsFinite(MarketVariance(call.window))
                            /\ Gt0(MarketVariance(call.window))
                         THEN Zero ELSE NaN)
                  /\ (\A u \in DOMAIN call.window : ConstantPrice(call.window, u))
                        => IsNaN(ret_exposures[t]["Market"])

\* C15 witness: a constant-price asset next to an asset whose price varies
\* gets a Market exposure of 0.
C15_Witness ==
    /\ Returned("calculate_factor_exposures")
    /\ \E t \in DOMAIN call.window :
          /\ ConstantPrice(call.window, t)
          /\ ret_exposures[t]["Momentum"] = Zero
          /\ ret_exposures[t]["Market"] = Zero
          /\ \E u \in DOMAIN call.window : ~ConstantPrice(call.window, u)

\* C18: an asset with at least 2 prices in the window has Momentum = (its last
\* available close / its first available close) - 1, and an asset with fewer
\* than 2 prices has an undefined Momentum.
C18_MomentumFirstToLastAvailable ==
    Returned("calculate_factor_exposures") =>
       \A t \in DOMAIN call.window :
          IF Cardinality(DOMAIN call.window[t]) >= 2
          THEN ret_exposures[t]["Momentum"] =
                  Sub(Div(call.window[t][SetMax(DOMAIN call.window[t])],
                          call.window[t][SetMin(DOMAIN call.window[t])]),
                      One)
          ELSE IsNaN(ret_exposures[t]["Momentum"])

\* The return table of the window of the last call: the per-asset per-date
\* returns, before any date is dropped.
WindowReturns == PctChange(DfClose(call.window))

\* The assets that have a complete exposure row in the model's exposure table
\* and a defined return on date d of the window's return table.
FitAssets(d) ==
    {t \in CompleteRows(factor_exposures.tab) \cap WindowReturns.cols :
        ~IsNaN(WindowReturns.v[t][d])}

\* C19: estimate_factor_returns returns exactly one row for each date of the
\* window's return table on which some asset has a complete exposure row and a
\* defined return, fitted on exactly those assets, and no row for another date
\* (so a date on which only some assets have a defined return has its row).
C19_OneRowPerFeasibleDate ==
    Returned("estimate_factor_returns") =>
       /\ DOMAIN ret_freturns = {d \in WindowReturns.index : FitAssets(d) # {}}
       /\ \A d \in DOMAIN ret_freturns :
             DOMAIN ret_freturns[d].x = FitAssets(d)

\* The last two calls were calculate_factor_exposures on the same window, and
\* both returned.
CalculatedTwice ==
    /\ Returned("calculate_factor_exposures")
    /\ prev_call.call.op = "calculate_factor_exposures"
    /\ prev_call.call.raised = "none"
    /\ prev_call.call.window = call.window

RECURSIVE Reverse(_)
Reverse(seq) == IF seq = <<>> THEN <<>> ELSE Reverse(Tail(seq)) \o <<Head(seq)>>

ColumnsReversed(W) == [W EXCEPT !.order = Reverse(W.order)]

\* C13: calculate_turnover is >= 0 and is the same for the weight history with
\* its columns permuted.
C13_TurnoverNonNegative ==
    turnover_out.returned =>
       /\ ~IsNaN(turnover_out.value) /\ turnover_out.value[1] >= 0
       /\ turnover_out.value = CalculateTurnover(ColumnsReversed(turnover_in))

(***************************************************************************)
(* Claims about DataFetcher.fetch_historical_data.                         *)
(***************************************************************************)
\* The ticker is served from a cache file: persistent mode and a file at the call.
ServedFromCache(t) == fetch_args.mode = "persistent" /\ t \in fetch_args.csv_files

RequestedRemotely(t) == \E i \in DOMAIN requests : requests[i].ticker = t

\* C16: a requested ticker whose remote fetch raises or gives no bars is
\* absent from the result; a ticker fetched with bars is returned; a ticker
\* with a cache file (persistent mode) is returned from the cache without a
\* remote request; and the call returns.
C16_FetchFailureIsolated ==
    /\ fetch_pc = "returned" =>
          \A t \in Range(fetch_args.tickers) :
             /\ (~ServedFromCache(t) /\ fetch_args.remote[t] \in {"error", "empty"})
                   => t \notin DOMAIN fetched_data
             /\ (RequestedRemotely(t) /\ fetch_args.remote[t] = "bars")
                   => (t \in DOMAIN fetched_data
                       /\ fetched_data[t].source = "remote")
             /\ ServedFromCache(t)
                   => (t \in DOMAIN fetched_data
                       /\ fetched_data[t].source = "cache"
                       /\ ~RequestedRemotely(t))
    /\ (fetch_pc = "tickers" /\ fetch_todo = <<>>) => ENABLED FetchReturn

\* C16 witness: in persistent mode a call for two tickers has returned with
\* the cached one from its file while the remote request for the other failed.
C16_Witness ==
    /\ fetch_pc = "returned"
    /\ fetch_args.mode = "persistent"
    /\ \E t, u \in Range(fetch_args.tickers) :
          /\ ServedFromCache(t)
          /\ t \in DOMAIN fetched_data
          /\ ~ServedFromCache(u)
          /\ fetch_args.remote[u] = "error"
          /\ RequestedRemotely(u)
          /\ u \notin DOMAIN fetched_data

\* The requests made for a ticker, in the order they were made.
RequestsOf(t) == SelectSeq(requests, LAMBDA r : r.ticker = t)

\* The requests whose range [from, to] holds the date d.
RequestsHolding(rs, d) == {i \in DOMAIN rs : rs[i].from <= d /\ d <= rs[i].to}

\* C21: for start_date <= end_date, once the call has returned, the requests
\* made for a ticker whose remote fetch did not fail each span at most 365
\* days, do not overlap, and every date of [start_date, end_date] lies in the
\* range of exactly one of them.
C21_EveryDateRequestedOnce ==
    (fetch_pc = "returned" /\ fetch_args.start <= fetch_args.end) =>
       \A t \in Range(fetch_args.tickers) :
          (~ServedFromCache(t) /\ fetch_args.remote[t] # "error") =>
             /\ \A i \in DOMAIN RequestsOf(t) :
                   RequestsOf(t)[i].to - RequestsOf(t)[i].from <= ChunkDays
             /\ \A i, j \in DOMAIN RequestsOf(t) :
                   i < j => RequestsOf(t)[i].to < RequestsOf(t)[j].from
             /\ \A d \in fetch_args.start .. fetch_args.end :
                   Cardinality(RequestsHolding(RequestsOf(t), d)) = 1

(***************************************************************************)
(* Claims about backtest_strategy.                                         *)
(***************************************************************************)
\* The first ForwardBlock dates of the returns table strictly after end_date.
FollowingDates(index, end_date) ==
    {d \in index :
       /\ d > end_date
       /\ Cardinality({e \in index : e > end_date /\ e < d}) < ForwardBlock}

\* C6: the weights computed at a rebalance date D are applied only to dates
\* strictly after D, and the forward block is the 20 observations following D.
C6_BlockStrictlyAfter ==
    \A i \in DOMAIN bt_log :
       bt_log[i].raised = "none" =>
          /\ bt_log[i].date \notin bt_log[i].block
          /\ bt_log[i].block = FollowingDates(returns_data.index, bt_log[i].date)

\* The rebalance dates of the run in the order of the loop: those already
\* processed and those still to come.
Schedule == [i \in DOMAIN bt_log |-> bt_log[i].date] \o rebalance_todo

\* The dates of the returns table that fall in the rebalance period of day d.
DatesInPeriodOf(d) ==
    {e \in returns_data.index :
        PeriodOf(e, bt_args.period_len) = PeriodOf(d, bt_args.period_len)}

\* C20: every rebalance date is a date of the returns table, the last one of
\* the table inside its rebalance period; the schedule is strictly increasing
\* and has one date for each period that holds a date of the table.
C20_RebalanceDatesInTable ==
    bt_pc \in {"loop", "returned"} =>
       /\ \A i \in DOMAIN Schedule :
             /\ Schedule[i] \in returns_data.index
             /\ Schedule[i] = SetMax(DatesInPeriodOf(Schedule[i]) \cup {Schedule[i]})
       /\ \A i, j \in DOMAIN Schedule : i < j => Schedule[i] < Schedule[j]
       /\ {PeriodOf(Schedule[i], bt_args.period_len) : i \in DOMAIN Schedule}
             = {PeriodOf(e, bt_args.period_len) : e \in returns_data.index}

\* C7: the returned weight history has a row for every rebalance date at which
\* construct_portfolio returned weights, holding those weights.
C7_WeightRowsKept ==
    bt_pc = "returned" =>
       \A i \in DOMAIN bt_log :
          bt_log[i].raised = "none" =>
             /\ bt_log[i].date \in bt_result.weights.index
             /\ \A t \in DOMAIN bt_log[i].weights :
                   bt_result.weights.v[t][bt_log[i].date] = bt_log[i].weights[t]

\* The rebalance dates processed so far whose forward block holds date d.
BlocksHolding(d) ==
    {i \in DOMAIN bt_log : bt_log[i].raised = "none" /\ d \in bt_log[i].block}

\* C17: the return recorded for a date that lies in the forward block of some
\* processed rebalance date is the one of the latest such rebalance date: its
\* weights applied to the returns of the date; and the returned series holds
\* it unless it is undefined.
C17_LastWriteWins ==
    bt_pc \in {"loop", "returned"} =>
       \A d \in returns_data.index :
          BlocksHolding(d) # {} =>
             /\ portfolio_returns[d] =
                   WeightedReturn(DropColumn(returns_data, Benchmark),
                                  bt_log[SetMax(BlocksHolding(d))].weights, d)
             /\ (bt_pc = "returned" /\ ~IsNaN(portfolio_returns[d])) =>
                   (d \in DOMAIN bt_result.returns
                    /\ bt_result.returns[d] = portfolio_returns[d])

\* C17 witness: a backtest has returned in which a date lies in the blocks of
\* two rebalance dates that give it different returns, and a date lies
\* beyond the block of an earlier rebalance date.
C17_Witness ==
    /\ bt_pc = "returned"
    /\ \E d \in returns_data.index :
          /\ Cardinality(BlocksHolding(d)) >= 2
          /\ WeightedReturn(DropColumn(returns_data, Benchmark),
                            bt_log[SetMin(BlocksHolding(d))].weights, d)
                # portfolio_returns[d]
    /\ \E d \in returns_data.index :
          /\ BlocksHolding(d) # {}
          /\ \E i \in DOMAIN bt_log :
                /\ bt_log[i].date <= d
                /\ d \notin bt_log[i].block

\* A window without a price observation.
NoObservations(window_data) == \A t \in DOMAIN window_data : DOMAIN window_data[t] = {}

\* A window whose exposure table has no asset with every factor defined.
NoEligibleAsset(window_data) ==
    \/ NoObservations(window_data)
    \/ CompleteRows(CalculateFactorExposures(window_data).tab) = {}

\* C8: a rebalance date whose window gives no eligible asset raises no error
\* and gets all-zero weights, so the loop goes on to the later dates.
C8_EmptyWindowZeroWeights ==
    \A i \in DOMAIN bt_log :
       NoEligibleAsset(bt_log[i].window) =>
          /\ bt_log[i].raised = "none"
          /\ AllZero(bt_log[i].weights)

(***************************************************************************)
(* Claims about PortfolioPerformance and prepare_returns_data.             *)
(***************************************************************************)
\* C9: series of unequal length make alpha_beta and summary raise the
\* length-mismatch error, and the object never holds truncated series.
C9_LengthMismatchRaises ==
    Cardinality(DOMAIN pp_args.portfolio_returns)
       # Cardinality(DOMAIN pp_args.benchmark_returns) =>
          /\ pp_call.op \in {"alpha_beta", "summary"} => pp_call.raised = "ValueError"
          /\ pp.made => pp.portfolio_returns = pp_args.portfolio_returns

\* C10: from prices on n dates the returns table has n-1 rows, the first date
\* left out, and one column per asset.
C10_FirstDateExcluded ==
    (prep_out.returned /\ DfClose(prep_in).index # {}) =>
       /\ Cardinality(prep_out.frame.index) = Cardinality(DfClose(prep_in).index) - 1
       /\ SetMin(DfClose(prep_in).index) \notin prep_out.frame.index
       /\ prep_out.frame.cols = DOMAIN prep_in

====
